---- MODULE Spec2Model ----
(***************************************************************************)
(* A model of the lexer package: the cursor over the input string, the     *)
(* emission of tokens on the buffered Tokens channel, the driver goroutine *)
(* started by Run and the consumer that reads with NextToken.              *)
(*                                                                         *)
(* Strings are sequences of bytes (0..255); Go's 0-based half-open slices  *)
(* s[a:b] are Slice(s, a, b).  Runes are integers.                         *)
(***************************************************************************)
EXTENDS Integers, Sequences, FiniteSets, TLC

(***************************************************************************)
(* Bounds of the model.                                                    *)
(***************************************************************************)
\* longest input of the cursor specification, in code points
MaxLen == 3
\* longest input of the span specification, in code points
MaxSpanLen == 2
\* most consecutive calls of Peek that are compared
MaxPeeks == 3
\* most tokens the producer sends in one run of the pipeline specification
MaxSent == 2
\* most tokens the producer sends in one run of the span specification
MaxSpanSent == 1
\* how far below 0 the unguarded Dec/Backup may push Pos before the model stops following
MaxUnder == 1
\* most reads of the closed, drained channel that are counted
MaxClosedReads == 1
\* largest argument given to PeekCharacters
MaxPeekChars == 2

\* most tokens sent in the scenario of the numbers
MaxScenarioSent == 8
\* most tokens sent in the runs with misuse of the lifecycle
MaxMisuseSent == 1
\* tokens sent beyond the capacity of the channel
MaxOverCap == 1
\* the inputs and the tokens of the runs checked under fairness
MaxFairLen == 0
MaxFairSent == 1

(***************************************************************************)
(* Program constants.                                                      *)
(***************************************************************************)
TOKEN_ERROR == -2
TOKEN_EOF == -1
\* the TokenType the grammar of the scenario defines for numbers
TOKEN_NUMBER == 1
\* the sentinel Next returns at end of input
EOF == 0
\* capacity of the Tokens channel
ChanCap == 100
\* utf8.RuneError
RuneError == 65533

\* the two values a LexFn can be, as far as Run can tell
NIL == "nil"
FN == "fn"
\* the result of an operation that returns nothing
NoRet == "void"
\* no call of Errorf whose result the state function could return
NoResult == "none"
\* the value of the history of spans in the specifications that do not keep it
NotTracked == <<-1>>

(***************************************************************************)
(* Inputs: every string of at most MaxLen code points of the Alphabet, in  *)
(* UTF-8.  32 is ' ', 97 is 'a', 233 is e-acute (two bytes: C3 A9).        *)
(***************************************************************************)
Alphabet == {32, 97, 233}

EncodeRune(r) ==
  IF r < 128 THEN <<r>>
  ELSE <<192 + (r \div 64), 128 + (r % 64)>>

RECURSIVE EncodeString(_)
EncodeString(cps) ==
  IF cps = <<>> THEN <<>>
  ELSE EncodeRune(Head(cps)) \o EncodeString(Tail(cps))

CodePointStrings(max) == UNION {[1..n -> Alphabet] : n \in 0..max}

Inputs(max) == {EncodeString(cps) : cps \in CodePointStrings(max)}

(***************************************************************************)
(* Go slices and the unicode/utf8 and unicode functions the lexer calls.   *)
(***************************************************************************)
\* s[a:b] is in range
SliceOK(s, a, b) == 0 <= a /\ a <= b /\ b <= Len(s)

\* s[a:b]
Slice(s, a, b) == SubSeq(s, a + 1, b)

\* s[a:b] where it is in range, nothing where it is not
Span(s, a, b) == IF SliceOK(s, a, b) THEN Slice(s, a, b) ELSE <<>>

IsCont(b) == b >= 128 /\ b <= 191

\* utf8.DecodeRuneInString, for strings of one- and two-byte encodings:
\* <<rune, width>>
DecodeRuneInString(s) ==
  IF Len(s) = 0 THEN <<RuneError, 0>>
  ELSE IF s[1] < 128 THEN <<s[1], 1>>
  ELSE IF s[1] >= 194 /\ s[1] <= 223 /\ Len(s) >= 2 /\ IsCont(s[2])
       THEN <<(s[1] % 32) * 64 + (s[2] % 64), 2>>
  ELSE <<RuneError, 1>>

RECURSIVE RuneCountInString(_)
RuneCountInString(s) ==
  IF Len(s) = 0 THEN 0
  ELSE 1 + RuneCountInString(Slice(s, DecodeRuneInString(s)[2], Len(s)))

\* unicode.IsSpace
IsSpace(r) ==
  r \in {9, 10, 11, 12, 13, 32, 133, 160, 5760, 8232, 8233, 8239, 8287, 12288}
  \/ (r >= 8192 /\ r <= 8202)

\* unicode.IsNumber, for runes below U+0800 and RuneError
IsNumberRune(r) ==
  \/ (r >= 48 /\ r <= 57)
  \/ r \in {178, 179, 185, 188, 189, 190}
  \/ (r >= 1632 /\ r <= 1641)
  \/ (r >= 1776 /\ r <= 1785)
  \/ (r >= 1984 /\ r <= 1993)

(***************************************************************************)
(* State.                                                                  *)
(***************************************************************************)
VARIABLES
  Input,        \* Lexer.Input, bytes
  Start,        \* Lexer.Start
  Pos,          \* Lexer.Pos
  Width,        \* Lexer.Width
  State,        \* Lexer.State: FN or NIL
  Tokens,       \* the tokens buffered in the channel Lexer.Tokens
  closed,       \* the channel has been closed
  pc,           \* where the driver is: "new", "state", "exit", "done", "panic"
  errfResult,   \* what the last Errorf returned to the running state function,
                \* while that is still what it would return: NoResult after
                \* any later emission
  sent,         \* history: every token sent on the channel, in order
  received,     \* history: every token NextToken returned, in order
  closedReads,  \* history: reads that returned the closed indication
  closeCount,   \* history: times the channel was closed
  covered,      \* history: the spans emitted or ignored so far, concatenated
                \* (NotTracked in the specifications that do not keep it)
  errReturned,  \* history: a state function returned the result of Errorf
  quota,        \* the number of tokens the run may send (a bound of the model)
  pc2           \* where the goroutine of a second call of Run is: "none",
                \* "state", "exit", "done"

vars == <<Input, Start, Pos, Width, State, Tokens, closed, pc, errfResult,
          sent, received, closedReads, closeCount, covered, errReturned, quota, pc2>>

cursorVars == <<Start, Pos, Width>>
chanVars == <<Tokens, sent, covered>>
driverVars == <<State, closed, pc, closeCount, errReturned>>
consumerVars == <<received, closedReads>>

\* a goroutine started by Run is inside a state function (pc = "panic": the
\* process has ended)
Running == pc = "state" \/ (pc2 = "state" /\ pc # "panic")

\* the cursor of the lexer
Cursor == [Start |-> Start, Pos |-> Pos, Width |-> Width]

Token(type, value) == [Type |-> type, Value |-> value]

(***************************************************************************)
(* The cursor operations, as functions of the input and the cursor.  Each  *)
(* yields the cursor after the call, the value returned and whether the    *)
(* call panicked (a slice out of range).                                   *)
(***************************************************************************)
Result(c, r) ==
  [Start |-> c.Start, Pos |-> c.Pos, Width |-> c.Width, ret |-> r, fault |-> FALSE]

Fault(c) ==
  [Start |-> c.Start, Pos |-> c.Pos, Width |-> c.Width, ret |-> NoRet, fault |-> TRUE]

\* the cursor part of a result
CursorOf(r) == [Start |-> r.Start, Pos |-> r.Pos, Width |-> r.Width]

\* NextOp with the EOF path leaving Width as it was
NextOpStaleWidth(in, c) ==
  IF c.Pos >= RuneCountInString(in)
  THEN Result(c, EOF)
  ELSE IF ~SliceOK(in, c.Pos, Len(in)) THEN Fault(c)
  ELSE LET d == DecodeRuneInString(Slice(in, c.Pos, Len(in)))
       IN  Result([c EXCEPT !.Width = d[2], !.Pos = c.Pos + d[2]], d[1])

NextOp(in, c) ==
  IF c.Pos >= RuneCountInString(in)
  THEN Result([c EXCEPT !.Width = 0], EOF)
  ELSE IF ~SliceOK(in, c.Pos, Len(in)) THEN Fault(c)
  ELSE LET d == DecodeRuneInString(Slice(in, c.Pos, Len(in)))
       IN  Result([c EXCEPT !.Width = d[2], !.Pos = c.Pos + d[2]], d[1])

BackupOp(in, c) == Result([c EXCEPT !.Pos = c.Pos - c.Width], NoRet)

\* PeekOp with Backup replaced by Dec
PeekOpDec(in, c) ==
  LET n == NextOp(in, c)
  IN  IF n.fault THEN n
      ELSE Result([Start |-> n.Start, Pos |-> n.Pos - 1, Width |-> n.Width], n.ret)

\* Peek that puts Width back as well
PeekOpKeepsWidth(in, c) ==
  LET n == NextOp(in, c)
  IN  IF n.fault THEN n
      ELSE Result([c EXCEPT !.Pos = n.Pos - n.Width], n.ret)

PeekOp(in, c) ==
  LET n == NextOp(in, c)
  IN  IF n.fault THEN n
      ELSE Result(CursorOf(BackupOp(in, CursorOf(n))), n.ret)

IncOp(in, c) ==
  IF c.Pos + 1 > RuneCountInString(in)
  THEN Result(c, NoRet)
  ELSE Result([c EXCEPT !.Pos = c.Pos + 1], NoRet)

DecOp(in, c) == Result([c EXCEPT !.Pos = c.Pos - 1], NoRet)

CurrentCharacterOp(in, c) ==
  IF SliceOK(in, c.Pos, c.Pos + 1)
  THEN Result(c, Slice(in, c.Pos, c.Pos + 1))
  ELSE Fault(c)

CurrentInputOp(in, c) ==
  IF SliceOK(in, c.Start, c.Pos)
  THEN Result(c, Slice(in, c.Start, c.Pos))
  ELSE Fault(c)

InputToEndOp(in, c) ==
  IF SliceOK(in, c.Pos, Len(in))
  THEN Result(c, Slice(in, c.Pos, Len(in)))
  ELSE Fault(c)

\* IsEOF comparing Pos with the length in bytes
IsEOFOpBytes(in, c) == Result(c, c.Pos >= Len(in))

IsEOFOp(in, c) == Result(c, c.Pos >= RuneCountInString(in))

IsNewlineOp(in, c) ==
  LET ch == CurrentCharacterOp(in, c)
  IN  IF ch.fault THEN ch ELSE Result(c, ch.ret = <<10>>)

IsNumberOp(in, c) ==
  IF SliceOK(in, c.Pos, Len(in))
  THEN Result(c, IsNumberRune(DecodeRuneInString(Slice(in, c.Pos, Len(in)))[1]))
  ELSE Fault(c)

IsWhitespaceOp(in, c) ==
  IF SliceOK(in, c.Pos, Len(in))
  THEN Result(c, IsSpace(DecodeRuneInString(Slice(in, c.Pos, Len(in)))[1]))
  ELSE Fault(c)

PeekCharactersOp(in, c, numCharacters) ==
  LET e0 == c.Pos + numCharacters
      end == IF e0 > RuneCountInString(in) THEN RuneCountInString(in) ELSE e0
  IN  IF SliceOK(in, c.Pos, end)
      THEN Result(c, Slice(in, c.Pos, end))
      ELSE Fault(c)

(***************************************************************************)
(* SkipWhitespace's loop: the cursor when it stops, and whether it stops   *)
(* in the branch that emits TOKEN_EOF (emit) or by a panic in Next (fault).*)
(***************************************************************************)
RECURSIVE SkipWhitespaceOp(_, _)
SkipWhitespaceOp(in, c) ==
  LET n == NextOp(in, c)
  IN  IF n.fault THEN [cur |-> c, emit |-> FALSE, fault |-> TRUE]
      ELSE IF ~IsSpace(n.ret)
      THEN LET d == DecOp(in, CursorOf(n))
           IN  [cur |-> [Start |-> d.Pos, Pos |-> d.Pos, Width |-> d.Width],
                emit |-> FALSE, fault |-> FALSE]
      ELSE IF n.ret = EOF
      THEN [cur |-> CursorOf(n), emit |-> TRUE, fault |-> FALSE]
      ELSE SkipWhitespaceOp(in, CursorOf(n))

(***************************************************************************)
(* What the callers supply: token types, value transformers and error      *)
(* messages.                                                               *)
(***************************************************************************)
\* the token types a grammar emits: TOKEN_EOF and one of its own
TokenTypes == {TOKEN_EOF, 1}

\* a TokenValueTransformer: upper-cases the ASCII letters
ToUpper(s) == [i \in 1..Len(s) |-> IF s[i] >= 97 /\ s[i] <= 122 THEN s[i] - 32 ELSE s[i]]

TransformFns == {"ToUpper"}

Transform(fn, s) == ToUpper(s)

\* fmt.Sprintf for formats whose verbs are %s, one argument each:
\* 37 is '%'
RECURSIVE Sprintf(_, _)
Sprintf(format, args) ==
  IF format = <<>> THEN <<>>
  ELSE IF Head(format) = 37 /\ Len(format) >= 2 /\ args # <<>>
  THEN Head(args) \o Sprintf(SubSeq(format, 3, Len(format)), Tail(args))
  ELSE <<Head(format)>> \o Sprintf(Tail(format), args)

\* the calls of Errorf a grammar makes: Errorf("%s?", "$")
ErrorfCalls == {<<(<<37, 115, 63>>), <<(<<36>>)>>>>}

(***************************************************************************)
(* Init: the Lexer NewLexer returns, before Run.                           *)
(***************************************************************************)
\* NewLexer(input, startState) for the inputs and the start states given
NewLexerWith(inputs, startStates, n, spans) ==
  /\ Input \in inputs
  /\ Start = 0
  /\ Pos = 0
  /\ Width = 0
  /\ State \in startStates
  /\ Tokens = <<>>
  /\ closed = FALSE
  /\ pc = "new"
  /\ errfResult = NoResult
  /\ sent = <<>>
  /\ received = <<>>
  /\ closedReads = 0
  /\ closeCount = 0
  /\ covered = spans
  /\ errReturned = FALSE
  /\ quota = n
  /\ pc2 = "none"

\* the start state is a state function of any grammar, or nil
NewLexer(inputs, n, spans) == NewLexerWith(inputs, {FN, NIL}, n, spans)

\* the pipeline: the inputs of at most one code point, more tokens
Init == NewLexer(Inputs(1), MaxSent, NotTracked)

\* the cursor: longer inputs, no token
CursorInit == NewLexer(Inputs(MaxLen), 0, NotTracked)

\* the cursor and the emissions, with the history of spans
SpanInit == NewLexer(Inputs(MaxSpanLen), MaxSpanSent, <<>>)

(***************************************************************************)
(* The driver.                                                             *)
(***************************************************************************)
\* Run: the goroutine starts and calls lexer.State(lexer); calling a nil
\* LexFn panics
Run ==
  /\ pc = "new"
  /\ pc' = IF State = NIL THEN "panic" ELSE "state"
  /\ UNCHANGED <<Input, cursorVars, chanVars, consumerVars, State, closed,
                 closeCount, errReturned, errfResult, quota, pc2>>

\* the state function returns v: Run assigns it to lexer.State, leaves the
\* loop when it is nil and calls it otherwise
ReturnState(v) ==
  /\ pc = "state"
  /\ State' = v
  /\ pc' = IF v = NIL THEN "exit" ELSE "state"
  /\ errReturned' = (errReturned \/ v = errfResult)
  /\ errfResult' = NoResult
  /\ UNCHANGED <<Input, cursorVars, chanVars, consumerVars, closed, closeCount,
                 quota, pc2>>

\* Run leaving without the call of Shutdown
ShutdownWithoutClose ==
  /\ pc = "exit"
  /\ pc' = "done"
  /\ UNCHANGED <<Input, cursorVars, chanVars, consumerVars, State, closed,
                 closeCount, errReturned, errfResult, quota, pc2>>

\* Shutdown called inside the loop as well, after every state function
ShutdownInLoop ==
  /\ pc \in {"state", "exit"}
  /\ IF closed
     THEN pc' = "panic" /\ UNCHANGED <<closed, closeCount>>
     ELSE /\ pc' = (IF pc = "exit" THEN "done" ELSE pc)
          /\ closed' = TRUE
          /\ closeCount' = closeCount + 1
  /\ UNCHANGED <<Input, cursorVars, chanVars, consumerVars, State, errReturned,
                 errfResult, quota, pc2>>

\* Shutdown, called by Run after the loop: close(lexer.Tokens); closing a
\* closed channel panics
Shutdown ==
  /\ pc = "exit"
  /\ IF closed
     THEN pc' = "panic" /\ UNCHANGED <<closed, closeCount>>
     ELSE pc' = "done" /\ closed' = TRUE /\ closeCount' = closeCount + 1
  /\ UNCHANGED <<Input, cursorVars, chanVars, consumerVars, State, errReturned,
                 errfResult, quota, pc2>>

(***************************************************************************)
(* The operations a state function calls.                                  *)
(***************************************************************************)
\* the driver goroutine panics: the process ends
Panics ==
  /\ pc' = "panic"
  /\ UNCHANGED <<Input, cursorVars, chanVars, consumerVars, State, closed,
                 closeCount, errReturned, errfResult, quota, pc2>>

\* an operation that touches only the cursor: r is its result
CursorCall(r) ==
  /\ Running
  /\ IF r.fault
     THEN Panics
     ELSE /\ r.Pos >= 0 - MaxUnder
          /\ Start' = r.Start
          /\ Pos' = r.Pos
          /\ Width' = r.Width
          /\ UNCHANGED <<Input, chanVars, consumerVars, driverVars, errfResult,
                         quota, pc2>>

Next == CursorCall(NextOp(Input, Cursor))

Backup == CursorCall(BackupOp(Input, Cursor))

Peek == CursorCall(PeekOp(Input, Cursor))

Inc == CursorCall(IncOp(Input, Cursor))

Dec == CursorCall(DecOp(Input, Cursor))

CurrentCharacter == CursorCall(CurrentCharacterOp(Input, Cursor))

CurrentInput == CursorCall(CurrentInputOp(Input, Cursor))

InputToEnd == CursorCall(InputToEndOp(Input, Cursor))

IsEOF == CursorCall(IsEOFOp(Input, Cursor))

IsNewline == CursorCall(IsNewlineOp(Input, Cursor))

IsNumber == CursorCall(IsNumberOp(Input, Cursor))

IsWhitespace == CursorCall(IsWhitespaceOp(Input, Cursor))

PeekCharacters(numCharacters) ==
  CursorCall(PeekCharactersOp(Input, Cursor, numCharacters))

\* the history of spans, kept while it is a record of the input up to Start
Cover(span) ==
  IF covered # NotTracked /\ SliceOK(Input, 0, Start) /\ covered = Slice(Input, 0, Start)
  THEN covered \o span
  ELSE covered

\* Ignore: the pending span is dropped
Ignore ==
  /\ Running
  /\ Start' = Pos
  /\ covered' = Cover(Span(Input, Start, Pos))
  /\ UNCHANGED <<Input, Pos, Width, Tokens, sent, consumerVars, driverVars,
                 errfResult, quota, pc2>>

\* a send that goes through when the buffer is full
CanSendWhenFull == Len(Tokens) <= ChanCap /\ Len(sent) < quota

\* lexer.Tokens <- tok blocks while the buffer is full
CanSend == Len(Tokens) < ChanCap /\ Len(sent) < quota

\* EmitValue without the reset of Start
EmitValueKeepsStart(tokenType, value) ==
  /\ Running
  /\ IF ~SliceOK(Input, Start, Pos) \/ closed
     THEN Panics
     ELSE /\ CanSend
          /\ Tokens' = Append(Tokens, Token(tokenType, value))
          /\ sent' = Append(sent, Token(tokenType, value))
          /\ covered' = Cover(Slice(Input, Start, Pos))
          /\ errfResult' = NoResult
          /\ UNCHANGED <<Input, cursorVars, consumerVars, driverVars, quota, pc2>>

\* the body of Emit and EmitWithTransform: the slice Input[Start:Pos] (it
\* panics out of range), the send of the token with the value made of it
\* (it panics on a closed channel), then Start = Pos
EmitValue(tokenType, value) ==
  /\ Running
  /\ IF ~SliceOK(Input, Start, Pos) \/ closed
     THEN Panics
     ELSE /\ CanSend
          /\ Tokens' = Append(Tokens, Token(tokenType, value))
          /\ sent' = Append(sent, Token(tokenType, value))
          /\ covered' = Cover(Slice(Input, Start, Pos))
          /\ Start' = Pos
          /\ errfResult' = NoResult
          /\ UNCHANGED <<Input, Pos, Width, consumerVars, driverVars, quota, pc2>>

Emit(tokenType) == EmitValue(tokenType, Span(Input, Start, Pos))

EmitWithTransform(tokenType, transformFn) ==
  EmitValue(tokenType, Transform(transformFn, Span(Input, Start, Pos)))

\* Errorf returning a state function instead of nil
ErrorfReturnsFn(format, args) ==
  /\ Running
  /\ IF closed
     THEN Panics
     ELSE /\ CanSend
          /\ Tokens' = Append(Tokens, Token(TOKEN_ERROR, Sprintf(format, args)))
          /\ sent' = Append(sent, Token(TOKEN_ERROR, Sprintf(format, args)))
          /\ errfResult' = FN
          /\ UNCHANGED <<Input, cursorVars, covered, consumerVars, driverVars,
                         quota, pc2>>

\* Errorf: one TOKEN_ERROR token with the formatted message; returns nil
Errorf(format, args) ==
  /\ Running
  /\ IF closed
     THEN Panics
     ELSE /\ CanSend
          /\ Tokens' = Append(Tokens, Token(TOKEN_ERROR, Sprintf(format, args)))
          /\ sent' = Append(sent, Token(TOKEN_ERROR, Sprintf(format, args)))
          /\ errfResult' = NIL
          /\ UNCHANGED <<Input, cursorVars, covered, consumerVars, driverVars,
                         quota, pc2>>

\* SkipWhitespace: the loop, then Emit(TOKEN_EOF) when it stopped in that
\* branch
SkipWhitespace ==
  LET r == SkipWhitespaceOp(Input, Cursor)
      c == r.cur
  IN  /\ Running
      /\ IF r.fault \/ (r.emit /\ (~SliceOK(Input, c.Start, c.Pos) \/ closed))
         THEN Panics
         ELSE /\ c.Pos >= 0 - MaxUnder
              /\ r.emit => CanSend
              /\ Tokens' = IF r.emit
                           THEN Append(Tokens, Token(TOKEN_EOF, Slice(Input, c.Start, c.Pos)))
                           ELSE Tokens
              /\ sent' = IF r.emit
                         THEN Append(sent, Token(TOKEN_EOF, Slice(Input, c.Start, c.Pos)))
                         ELSE sent
              /\ covered' = Cover(Span(Input, Start, c.Pos))
              /\ Start' = IF r.emit THEN c.Pos ELSE c.Start
              /\ Pos' = c.Pos
              /\ Width' = c.Width
              /\ errfResult' = IF r.emit THEN NoResult ELSE errfResult
              /\ UNCHANGED <<Input, consumerVars, driverVars, quota, pc2>>

(***************************************************************************)
(* The consumer.                                                           *)
(***************************************************************************)
\* the nil interface{}: the Value of a Token that holds no value (no byte
\* string is equal to it)
NilValue == <<-1>>

\* Token{}, what a receive from a closed and empty channel yields
ZeroToken == Token(0, NilValue)

\* Token.IsEmpty
IsEmpty(token) == token.Type = 0 /\ token.Value = NilValue

\* what NextToken returns when it does not block
NextTokenRet == IF Tokens # <<>> THEN Head(Tokens) ELSE ZeroToken

\* the history counter of closed reads, kept below its bound
CountClosedRead(n) == IF n < MaxClosedReads THEN n + 1 ELSE n

\* NextToken blocking on an empty channel whether it is closed or not
NextTokenBlocksOnClosed ==
  /\ pc # "panic"
  /\ Tokens # <<>>
  /\ received' = Append(received, NextTokenRet)
  /\ Tokens' = Tail(Tokens)
  /\ UNCHANGED <<Input, cursorVars, sent, covered, driverVars, errfResult, quota,
                 closedReads, pc2>>

\* NextToken taking the newest buffered token
NextTokenNewest ==
  /\ pc # "panic"
  /\ IF Tokens # <<>>
     THEN /\ received' = Append(received, Tokens[Len(Tokens)])
          /\ Tokens' = SubSeq(Tokens, 1, Len(Tokens) - 1)
          /\ UNCHANGED closedReads
     ELSE /\ closed
          /\ closedReads' = CountClosedRead(closedReads)
          /\ UNCHANGED <<received, Tokens>>
  /\ UNCHANGED <<Input, cursorVars, sent, covered, driverVars, errfResult, quota, pc2>>

\* NextToken: <-lexer.Tokens takes the oldest buffered token, yields the
\* zero Token once the channel is closed and empty, and blocks otherwise
NextToken ==
  /\ pc # "panic"
  /\ IF Tokens # <<>>
     THEN /\ received' = Append(received, NextTokenRet)
          /\ Tokens' = Tail(Tokens)
          /\ UNCHANGED closedReads
     ELSE /\ closed
          /\ closedReads' = CountClosedRead(closedReads)
          /\ UNCHANGED <<received, Tokens>>
  /\ UNCHANGED <<Input, cursorVars, sent, covered, driverVars, errfResult, quota, pc2>>

\* the calls of a state function that touch only the cursor (SkipWhitespace
\* sends when its loop stops in the branch that emits)
CursorOpStep ==
  \/ Next
  \/ Backup
  \/ Peek
  \/ Inc
  \/ Dec
  \/ CurrentCharacter
  \/ CurrentInput
  \/ InputToEnd
  \/ IsEOF
  \/ IsNewline
  \/ IsNumber
  \/ IsWhitespace
  \/ \E n \in 0..MaxPeekChars : PeekCharacters(n)
  \/ Ignore
  \/ SkipWhitespace

\* the calls that send a token
EmitStep ==
  \/ \E t \in TokenTypes : Emit(t)
  \/ \E t \in TokenTypes, fn \in TransformFns : EmitWithTransform(t, fn)
  \/ \E e \in ErrorfCalls : Errorf(e[1], e[2])

StateFunctionStep ==
  \/ CursorOpStep
  \/ EmitStep

Step ==
  \/ Run
  \/ StateFunctionStep
  \/ \E v \in {FN, NIL} : ReturnState(v)
  \/ Shutdown
  \/ NextToken

\* the pipeline specification: driver, state functions and consumer
Spec == Init /\ [][Step]_vars

\* the cursor specification: the cursor calls one state function makes
CursorStep ==
  \/ Run
  \/ CursorOpStep

CursorSpec == CursorInit /\ [][CursorStep]_vars

\* the span specification: the calls one state function makes, with the
\* history of spans
SpanStep ==
  \/ Run
  \/ StateFunctionStep

SpanSpec == SpanInit /\ [][SpanStep]_vars

\* the pipeline with a state function that sends more tokens than the
\* channel holds: the k-th token it emits has the TokenType k, so that no
\* two tokens are alike; the input is empty
BackpressureInit == NewLexer(Inputs(0), ChanCap + MaxOverCap, NotTracked)

EmitNumbered == Emit(Len(sent) + 1)

BackpressureStep ==
  \/ Run
  \/ EmitNumbered
  \/ \E v \in {FN, NIL} : ReturnState(v)
  \/ Shutdown
  \/ NextToken

BackpressureSpec == BackpressureInit /\ [][BackpressureStep]_vars

(***************************************************************************)
(* A grammar for numbers separated by whitespace, in two variants that     *)
(* differ in where the test for the end of the input stands.  A state      *)
(* function is one step of the driver: the cursor after it, the tokens it  *)
(* sent in order, and the state function it returns.                       *)
(***************************************************************************)
\* unicode.IsDigit, for the characters of the scenario
IsDigit(r) == r >= 48 /\ r <= 57

\* for { if !unicode.IsDigit(lexer.Next()) { lexer.Backup(); break } }
RECURSIVE ReadDigitsOp(_, _)
ReadDigitsOp(in, c) ==
  LET n == NextOp(in, c)
  IN  IF n.fault THEN n
      ELSE IF IsDigit(n.ret) THEN ReadDigitsOp(in, CursorOf(n))
      ELSE BackupOp(in, CursorOf(n))

Outcome(c, out, next) == [cur |-> c, out |-> out, next |-> next, fault |-> FALSE]

Panicked(c) == [cur |-> c, out |-> <<>>, next |-> NIL, fault |-> TRUE]

\* what came before, then lexer.Emit(tokenType); return next
ThenEmit(in, o, tokenType, next) ==
  IF o.fault \/ ~SliceOK(in, o.cur.Start, o.cur.Pos) THEN Panicked(o.cur)
  ELSE Outcome([o.cur EXCEPT !.Start = o.cur.Pos],
               Append(o.out, Token(tokenType, Slice(in, o.cur.Start, o.cur.Pos))),
               next)

\* what came before, then lexer.SkipWhitespace()
ThenSkipWhitespace(in, o) ==
  LET r == SkipWhitespaceOp(in, o.cur)
  IN  IF o.fault \/ r.fault THEN Panicked(o.cur)
      ELSE IF r.emit THEN ThenEmit(in, Outcome(r.cur, o.out, o.next), TOKEN_EOF, o.next)
      ELSE Outcome(r.cur, o.out, o.next)

\* what came before, then
\* if lexer.IsEOF() { lexer.Emit(TOKEN_EOF); return nil }; return next
ThenEOFOrElse(in, o, next) ==
  IF o.fault THEN o
  ELSE IF IsEOFOp(in, o.cur).ret THEN ThenEmit(in, o, TOKEN_EOF, NIL)
  ELSE Outcome(o.cur, o.out, next)

\* the digits read as a result of the cursor operations
DigitsRead(in, c) ==
  LET r == ReadDigitsOp(in, c)
  IN  IF r.fault THEN Panicked(c) ELSE Outcome(CursorOf(r), <<>>, NIL)

\* variant 1: LexNumber reads the digits and emits them; LexSpace skips
\* the whitespace and then tests for the end of the input
LexNumberFn(in, c) == ThenEmit(in, DigitsRead(in, c), TOKEN_NUMBER, "LexSpace")

LexSpaceFn(in, c) ==
  ThenEOFOrElse(in, ThenSkipWhitespace(in, Outcome(c, <<>>, NIL)), "LexNumber")

\* variant 2: LexDigits reads the digits, emits them and tests for the end
\* of the input; LexBlank skips the whitespace
LexDigitsFn(in, c) ==
  ThenEOFOrElse(in, ThenEmit(in, DigitsRead(in, c), TOKEN_NUMBER, NIL), "LexBlank")

LexBlankFn(in, c) ==
  LET o == ThenSkipWhitespace(in, Outcome(c, <<>>, NIL))
  IN  IF o.fault THEN o ELSE Outcome(o.cur, o.out, "LexDigits")

\* the driver calls the state function fn and assigns what it returns to
\* lexer.State
Invoke(fn, o) ==
  /\ pc = "state"
  /\ State = fn
  /\ IF o.fault \/ (o.out # <<>> /\ closed)
     THEN Panics
     ELSE /\ Len(Tokens) + Len(o.out) <= ChanCap
          /\ Len(sent) + Len(o.out) <= quota
          /\ Tokens' = Tokens \o o.out
          /\ sent' = sent \o o.out
          /\ Start' = o.cur.Start
          /\ Pos' = o.cur.Pos
          /\ Width' = o.cur.Width
          /\ State' = o.next
          /\ pc' = IF o.next = NIL THEN "exit" ELSE "state"
          /\ errfResult' = NoResult
          /\ UNCHANGED <<Input, covered, consumerVars, closed, closeCount,
                         errReturned, quota, pc2>>

LexNumber == Invoke("LexNumber", LexNumberFn(Input, Cursor))
LexSpace == Invoke("LexSpace", LexSpaceFn(Input, Cursor))
LexDigits == Invoke("LexDigits", LexDigitsFn(Input, Cursor))
LexBlank == Invoke("LexBlank", LexBlankFn(Input, Cursor))

\* "12 34"
In1234 == <<49, 50, 32, 51, 52>>

\* NewLexer("12 34", LexNumber) and NewLexer("12 34", LexDigits)
ScenarioInit ==
  NewLexerWith({In1234}, {"LexNumber", "LexDigits"}, MaxScenarioSent, NotTracked)

ScenarioStep ==
  \/ Run
  \/ LexNumber
  \/ LexSpace
  \/ LexDigits
  \/ LexBlank
  \/ Shutdown
  \/ NextToken

ScenarioSpec == ScenarioInit /\ [][ScenarioStep]_vars

(***************************************************************************)
(* Misuse of the lifecycle.  Run and Shutdown are exported and test        *)
(* nothing: Run can be called again and starts a second goroutine with the *)
(* same loop over the same Lexer, and Shutdown can be called by any        *)
(* goroutine at any time.  The steps of the second goroutine interleave    *)
(* with those of the first; a step is one call, as for the first.          *)
(***************************************************************************)
\* a second call of Run: the new goroutine calls lexer.State(lexer), which
\* panics when State is nil
RunAgain ==
  /\ pc \in {"state", "exit", "done"}
  /\ pc2 = "none"
  /\ IF State = NIL
     THEN pc' = "panic" /\ UNCHANGED pc2
     ELSE pc2' = "state" /\ UNCHANGED pc
  /\ UNCHANGED <<Input, cursorVars, chanVars, consumerVars, State, closed,
                 closeCount, errReturned, errfResult, quota>>

\* the state function the second goroutine called returns v
ReturnState2(v) ==
  /\ pc # "panic"
  /\ pc2 = "state"
  /\ State' = v
  /\ pc2' = IF v = NIL THEN "exit" ELSE "state"
  /\ errReturned' = (errReturned \/ v = errfResult)
  /\ errfResult' = NoResult
  /\ UNCHANGED <<Input, cursorVars, chanVars, consumerVars, closed, closeCount,
                 quota, pc>>

\* the second goroutine calls Shutdown after its loop
Shutdown2 ==
  /\ pc # "panic"
  /\ pc2 = "exit"
  /\ IF closed
     THEN pc' = "panic" /\ UNCHANGED <<closed, closeCount, pc2>>
     ELSE pc2' = "done" /\ closed' = TRUE /\ closeCount' = closeCount + 1
          /\ UNCHANGED pc
  /\ UNCHANGED <<Input, cursorVars, chanVars, consumerVars, State, errReturned,
                 errfResult, quota>>

\* a goroutine other than the drivers calls Shutdown
ShutdownCall ==
  /\ pc # "panic"
  /\ IF closed
     THEN pc' = "panic" /\ UNCHANGED <<closed, closeCount>>
     ELSE closed' = TRUE /\ closeCount' = closeCount + 1 /\ UNCHANGED pc
  /\ UNCHANGED <<Input, cursorVars, chanVars, consumerVars, State, errReturned,
                 errfResult, quota, pc2>>

MisuseInit == NewLexer(Inputs(0), MaxMisuseSent, NotTracked)

MisuseStep ==
  \/ Step
  \/ RunAgain
  \/ \E v \in {FN, NIL} : ReturnState2(v)
  \/ Shutdown2
  \/ ShutdownCall

MisuseSpec == MisuseInit /\ [][MisuseStep]_vars

\* the pipeline under the scheduler: a goroutine that can take a step is
\* not held back for ever, so the driver starts, closes the channel once it
\* has left its loop, and a consumer that keeps calling NextToken receives
\* whatever the channel can give it; whether a state function goes on is
\* left to the grammar
FairInit == NewLexer(Inputs(MaxFairLen), MaxFairSent, NotTracked)

FairSpec ==
  /\ FairInit
  /\ [][Step]_vars
  /\ WF_vars(Run)
  /\ WF_vars(Shutdown)
  /\ WF_vars(NextToken)

(***************************************************************************)
(* The claims.                                                             *)
(***************************************************************************)
Last(s) == s[Len(s)]

\* the pending text, Input[Start:Pos]
Pending == Slice(Input, Start, Pos)

\* e-acute in UTF-8
EAcute == <<195, 169>>

\* C1: the tokens the consumer has received, followed by those still
\* buffered, are exactly the tokens sent, in the order sent: what NextToken
\* has returned is a prefix of what was sent and nothing is lost, doubled
\* or reordered.
C1_ReceivedIsPrefixOfSent == sent = received \o Tokens

\* two different tokens were sent and received
C1_Witness ==
  /\ Len(received) >= 2
  /\ received[1] # received[2]
  /\ sent = received

\* C2: the channel is closed at most once, it is closed only when the
\* driver has left its loop (State is nil), a finished driver has closed it
\* exactly once, and no step sends a token once it is closed.
C2_ClosedOnceAfterLoop ==
  /\ [](/\ closeCount <= 1
        /\ closed => (closeCount = 1 /\ State = NIL /\ pc = "done")
        /\ pc = "done" => (closed /\ closeCount = 1))
  /\ [][closed => (sent' = sent /\ closed')]_vars

\* the driver closed the channel after two tokens
C2_Witness == closed /\ pc = "done" /\ Len(sent) >= 2 /\ closeCount = 1

\* C3, as stated: an Error token is the last token sent.
C3_NoTokenAfterError ==
  \A i \in 1..Len(sent) : sent[i].Type = TOKEN_ERROR => i = Len(sent)

\* C3, amended: once a state function has returned the result of Errorf,
\* the driver has left its loop with State nil, its close of the channel is
\* never blocked, the Error token is the last token sent, and after the
\* close it is the last token the consumer receives.
C3_ReturnedErrorIsTerminal ==
  errReturned =>
    /\ State = NIL
    /\ pc \in {"exit", "done"}
    /\ pc = "exit" => ENABLED Shutdown
    /\ pc = "done" => closed
    /\ sent # <<>>
    /\ Last(sent).Type = TOKEN_ERROR
    /\ (closed /\ Tokens = <<>>) => Last(received).Type = TOKEN_ERROR

\* the consumer received a token and then the Error token from the closed
\* channel
C3_Witness ==
  /\ errReturned
  /\ closed
  /\ Tokens = <<>>
  /\ Len(received) >= 2
  /\ Last(received).Type = TOKEN_ERROR
  /\ received[1].Type # TOKEN_ERROR

\* the cursor is within the input
CursorInRange == 0 <= Start /\ Start <= Pos /\ Pos <= Len(Input)

\* C4: in every state reachable by the cursor and emission operations,
\* 0 <= Start <= Pos <= len(Input).
C4_CursorInvariant == pc # "new" => CursorInRange

\* C5: in every cursor state in which Next does not panic, Next followed by
\* Backup leaves Pos where it was.
C5_NextThenBackupKeepsPos ==
  pc = "state" =>
    LET n == NextOp(Input, Cursor)
    IN  ~n.fault => BackupOp(Input, CursorOf(n)).Pos = Pos

\* Next read the two-byte character at the start of the input and Backup
\* went back over it
C5_Witness ==
  /\ pc = "state"
  /\ Len(Input) >= 2
  /\ SubSeq(Input, 1, 2) = EAcute
  /\ Pos = 0
  /\ Width = 2

\* the cursor after n calls of Peek
RECURSIVE PeekTimes(_, _, _)
PeekTimes(in, c, n) ==
  IF n = 0 THEN c ELSE PeekTimes(in, CursorOf(PeekOp(in, c)), n - 1)

\* C6: in every cursor state in which Next does not panic, each of N
\* consecutive calls of Peek returns the character Next would return and
\* leaves Pos where it was, for N up to MaxPeeks.
C6_PeekKeepsPos ==
  (pc = "state" /\ ~NextOp(Input, Cursor).fault) =>
    \A n \in 1..MaxPeeks :
      LET p == PeekOp(Input, PeekTimes(Input, Cursor, n - 1))
      IN  /\ ~p.fault
          /\ p.ret = NextOp(Input, Cursor).ret
          /\ p.Pos = Pos

\* Peek looked at the two-byte character that follows a space
C6_Witness ==
  /\ pc = "state"
  /\ Len(Input) >= 3
  /\ SubSeq(Input, 1, 3) = <<32>> \o EAcute
  /\ Pos = 1
  /\ Width = 2

\* what a call that emits a token of type k with value v does
Emitted(k, v) ==
  /\ sent' = Append(sent, Token(k, v))
  /\ Tokens' = Append(Tokens, Token(k, v))
  /\ Start' = Pos
  /\ Pos' = Pos

\* C7: a call of Emit(kind) that does not panic sends exactly one token, of
\* type kind, whose value is the pending text Input[Start:Pos] of before
\* the call, and leaves Start = Pos with Pos unchanged; EmitWithTransform
\* does the same with the transformed pending text as value.
C7_EmitSendsPending ==
  [][/\ \A k \in TokenTypes :
          (Emit(k) /\ pc' # "panic") => Emitted(k, Pending)
     /\ \A k \in TokenTypes, fn \in TransformFns :
          (EmitWithTransform(k, fn) /\ pc' # "panic")
            => Emitted(k, Transform(fn, Pending))]_vars

\* on input "a": EmitWithTransform sent the upper-cased letter, then Emit
\* sent the empty pending text as TOKEN_EOF
C7_Witness ==
  /\ Input = <<97>>
  /\ sent = <<Token(1, <<65>>), Token(TOKEN_EOF, <<>>)>>
  /\ Start = 1
  /\ Pos = 1

\* every character of s from byte offset pos on is whitespace
RECURSIVE AllWhitespaceFrom(_, _)
AllWhitespaceFrom(s, pos) ==
  IF pos >= Len(s) THEN TRUE
  ELSE LET d == DecodeRuneInString(Slice(s, pos, Len(s)))
       IN  IsSpace(d[1]) /\ AllWhitespaceFrom(s, pos + d[2])

\* C8: SkipWhitespace called with only whitespace (or nothing) from Pos on
\* sends exactly one token, of type TOKEN_EOF.
C8_SkipWhitespaceEmitsEOF ==
  [][(/\ SkipWhitespace
      /\ SliceOK(Input, Start, Pos)
      /\ AllWhitespaceFrom(Input, Pos))
       => (/\ Len(sent') = Len(sent) + 1
           /\ Last(sent').Type = TOKEN_EOF)]_vars

\* C9: the spans emitted and ignored so far, concatenated in order, are the
\* input up to Start: no character is in two spans and none is left out.
C9_SpansReconstructInput ==
  /\ SliceOK(Input, 0, Start)
  /\ covered = Slice(Input, 0, Start)

\* C10: in every cursor state within the input, the end of the input
\* included, no navigation operation panics.
C10_NavigationNeverFaults ==
  (pc = "state" /\ CursorInRange) =>
    /\ ~CurrentCharacterOp(Input, Cursor).fault
    /\ ~IsNewlineOp(Input, Cursor).fault
    /\ ~IsNumberOp(Input, Cursor).fault
    /\ ~IsWhitespaceOp(Input, Cursor).fault
    /\ \A n \in 0..MaxPeekChars : ~PeekCharactersOp(Input, Cursor, n).fault
    /\ ~CurrentInputOp(Input, Cursor).fault
    /\ ~InputToEndOp(Input, Cursor).fault
    /\ ~NextOp(Input, Cursor).fault
    /\ ~PeekOp(Input, Cursor).fault
    /\ ~BackupOp(Input, Cursor).fault

\* the byte offset after the first k characters of s from byte offset pos,
\* or the end of s where fewer remain
RECURSIVE CharsEnd(_, _, _)
CharsEnd(s, pos, k) ==
  IF k = 0 \/ pos >= Len(s) THEN pos
  ELSE CharsEnd(s, pos + DecodeRuneInString(Slice(s, pos, Len(s)))[2], k - 1)

\* C11: in every cursor state within the input, PeekCharacters(count) does
\* not panic, returns the first min(count, characters remaining from Pos)
\* characters of the input from Pos on, and leaves Start, Pos and Width as
\* they were.
C11_PeekCharactersClamps ==
  (pc = "state" /\ CursorInRange) =>
    \A n \in 0..MaxPeekChars :
      LET p == PeekCharactersOp(Input, Cursor, n)
      IN  /\ ~p.fault
          /\ p.ret = Slice(Input, Pos, CharsEnd(Input, Pos, n))
          /\ CursorOf(p) = Cursor

\* C12: a receive on the closed and drained channel is never blocked and
\* yields the zero Token, which IsEmpty reports, and leaves the channel
\* closed and drained, so every later call yields the same; and a consumer
\* that keeps calling NextToken is resumed: it receives every token that is
\* sent, and the closed indication once the driver has closed the channel.
C12_ConsumerNeverHangs ==
  /\ []((closed /\ Tokens = <<>>) =>
          /\ ENABLED NextToken
          /\ NextTokenRet = ZeroToken
          /\ IsEmpty(NextTokenRet))
  /\ [][(NextToken /\ closed /\ Tokens = <<>>) =>
          (closed' /\ Tokens' = <<>> /\ received' = received)]_vars
  /\ \A k \in 1..MaxFairSent :
       (Len(sent) >= k) ~> (Len(received) >= k \/ pc = "panic")
  /\ closed ~> (closedReads >= 1)

\* the consumer received a token and then the closed indication
C12_Witness ==
  /\ closed
  /\ Tokens = <<>>
  /\ Len(received) = 1
  /\ closedReads >= 1

\* C13: the channel never buffers more than its capacity of 100 tokens;
\* nothing sent is dropped, overwritten or reordered; a state function that
\* emits is blocked exactly while the buffer is full, and can send again
\* as soon as NextToken has taken a token.
C13_Backpressure ==
  /\ Len(Tokens) <= ChanCap
  /\ sent = received \o Tokens
  /\ (pc = "state" /\ Len(sent) < quota) =>
       (ENABLED EmitNumbered <=> Len(Tokens) < ChanCap)

\* the buffer was full, the consumer took one token and the state function
\* sent the 101st, filling the buffer again
C13_Witness ==
  /\ Len(sent) = ChanCap + 1
  /\ Len(Tokens) = ChanCap
  /\ received = <<Token(1, <<>>)>>

\* the tokens of the scenario: Number("12"), Number("34"), EndOfInput
Expected1234 ==
  <<Token(TOKEN_NUMBER, <<49, 50>>), Token(TOKEN_NUMBER, <<51, 52>>),
    Token(TOKEN_EOF, <<>>)>>

\* s is a prefix of t
IsPrefix(s, t) == Len(s) <= Len(t) /\ s = SubSeq(t, 1, Len(s))

\* C14: on the input "12 34" the tokens sent are at every moment a prefix
\* of Number("12"), Number("34"), EndOfInput; the driver does not panic;
\* when it has left its loop all three have been sent; and a consumer that
\* has read the closed indication has received exactly these three.
C14_Scenario1234 ==
  /\ IsPrefix(sent, Expected1234)
  /\ pc # "panic"
  /\ pc \in {"exit", "done"} => sent = Expected1234
  /\ closedReads >= 1 => received = Expected1234

\* the code points of s, in order
RECURSIVE DecodeAll(_)
DecodeAll(s) ==
  IF Len(s) = 0 THEN <<>>
  ELSE LET d == DecodeRuneInString(s)
       IN  <<d[1]>> \o DecodeAll(Slice(s, d[2], Len(s)))

\* the cursor after n calls of Next
RECURSIVE NextTimes(_, _, _)
NextTimes(in, c, n) ==
  IF n = 0 THEN c ELSE NextTimes(in, CursorOf(NextOp(in, c)), n - 1)

\* what the calls of Next return, from the cursor c on, up to the first EOF
RECURSIVE NextRunes(_, _)
NextRunes(in, c) ==
  LET n == NextOp(in, c)
  IN  IF n.fault \/ n.ret = EOF THEN <<>>
      ELSE <<n.ret>> \o NextRunes(in, CursorOf(n))

\* the cursor NewLexer returns
NewCursor == [Start |-> 0, Pos |-> 0, Width |-> 0]

\* C15: repeated calls of Next from Pos = 0 return every code point of the
\* input in order and then EOF; each call that returns a code point adds
\* its width in bytes to Pos and records it in Width; a call returns EOF
\* only with Pos = len(Input), and then leaves Pos and sets Width to 0.
C15_NextReadsEveryCodePoint ==
  /\ NextRunes(Input, NewCursor) = DecodeAll(Input)
  /\ \A k \in 0..Len(Input) :
       LET c == NextTimes(Input, NewCursor, k)
           n == NextOp(Input, c)
       IN  /\ ~n.fault
           /\ n.ret = EOF => (c.Pos = Len(Input) /\ n.Pos = c.Pos /\ n.Width = 0)
           /\ n.ret # EOF =>
                /\ n.ret = DecodeRuneInString(Slice(Input, c.Pos, Len(Input)))[1]
                /\ n.Width = DecodeRuneInString(Slice(Input, c.Pos, Len(Input)))[2]
                /\ n.Pos = c.Pos + n.Width

\* the byte offset of the first character of s from byte offset pos on that
\* is not whitespace, or the end of s where there is none
RECURSIVE FirstNonSpace(_, _)
FirstNonSpace(s, pos) ==
  IF pos >= Len(s) THEN Len(s)
  ELSE LET d == DecodeRuneInString(Slice(s, pos, Len(s)))
       IN  IF IsSpace(d[1]) THEN FirstNonSpace(s, pos + d[2]) ELSE pos

\* the byte offset pos is at the start of a character of s, or at its end
AtCharacter(s, pos) ==
  /\ 0 <= pos
  /\ pos <= Len(s)
  /\ pos < Len(s) => ~IsCont(s[pos + 1])

\* C16: SkipWhitespace called with the cursor at a run of k >= 0 whitespace
\* characters that a non-whitespace character follows does not panic,
\* sends no token, and ends with Start = Pos at the byte offset of that
\* character, so that the next Next returns it.
C16_SkipWhitespaceStopsAtCharacter ==
  [][(/\ SkipWhitespace
      /\ CursorInRange
      /\ AtCharacter(Input, Pos)
      /\ FirstNonSpace(Input, Pos) < Len(Input))
       => (/\ pc' # "panic"
           /\ sent' = sent
           /\ Pos' = FirstNonSpace(Input, Pos)
           /\ Start' = Pos'
           /\ NextOp(Input, [Start |-> Start', Pos |-> Pos', Width |-> Width']).ret
                = DecodeRuneInString(Slice(Input, Pos', Len(Input)))[1])]_vars

\* C17, as stated: where Next does not panic, Peek leaves Start, Pos and
\* Width as they were, and Next; Peek; Backup ends with Pos where it was
\* before the Next.
C17_PeekLeavesCursor ==
  (pc = "state" /\ ~NextOp(Input, Cursor).fault) =>
    LET n == NextOp(Input, Cursor)
        q == PeekOp(Input, CursorOf(n))
    IN  /\ CursorOf(PeekOp(Input, Cursor)) = Cursor
        /\ BackupOp(Input, CursorOf(q)).Pos = Pos

\* C17, amended: where Next does not panic, Peek returns what Next would
\* return and leaves Start and Pos as they were, but sets Width to the
\* width of the character it returns (0 at the end of the input); a Next
\* after the Peek does what it would have done without it; and Next; Peek;
\* Backup steps back by the width of the peeked character, so it ends with
\* Pos where it was before the Next exactly when the peeked character is as
\* wide as the one Next read.
C17_PeekKeepsStartAndPos ==
  (pc = "state" /\ ~NextOp(Input, Cursor).fault) =>
    LET n == NextOp(Input, Cursor)
        p == PeekOp(Input, Cursor)
        q == PeekOp(Input, CursorOf(n))
        b == BackupOp(Input, CursorOf(q))
    IN  /\ ~p.fault
        /\ p.ret = n.ret
        /\ p.Start = Start
        /\ p.Pos = Pos
        /\ p.Width = n.Width
        /\ NextOp(Input, CursorOf(p)) = n
        /\ ~q.fault
        /\ b.Pos = n.Pos - q.Width
        /\ b.Pos = Pos <=> q.Width = n.Width

\* on an input that starts with "a" and e-acute: Next read the "a", Peek
\* looked at the two-byte character and Backup stepped back two bytes, to
\* before the start of the input
C17_Witness ==
  /\ pc = "state"
  /\ Len(Input) >= 3
  /\ SubSeq(Input, 1, 3) = <<97>> \o EAcute
  /\ Start = 0
  /\ Pos = 0 - 1
  /\ Width = 2

\* the token EndOfInput of the empty input
EndOfInput == Token(TOKEN_EOF, <<>>)

\* C18: lexer.State changes only when the state function the driver called
\* returns; once one has returned nil the driver calls no state function
\* again (State stays nil, the cursor and the tokens sent stay as they
\* are); the driver then closes the channel, and a consumer that keeps
\* calling NextToken receives every token sent and then the closed
\* indication; on the empty input with a state function that emits
\* TOKEN_EOF and returns nil it receives exactly that token.
C18_DriverTerminates ==
  /\ [][State' # State => (pc = "state" /\ \E v \in {FN, NIL} : ReturnState(v))]_vars
  /\ [][(pc \in {"exit", "done"}) =>
          (/\ State = NIL
           /\ State' = NIL
           /\ pc' \in {"exit", "done"}
           /\ UNCHANGED <<cursorVars, sent>>)]_vars
  /\ (pc = "exit") ~> (pc = "done" /\ closed)
  /\ (pc = "exit") ~> (/\ closed
                       /\ Tokens = <<>>
                       /\ received = sent
                       /\ closedReads >= 1)
  /\ (Input = <<>> /\ pc = "exit" /\ sent = <<EndOfInput>>)
       ~> (received = <<EndOfInput>> /\ closedReads >= 1)

\* on the empty input the state function emitted TOKEN_EOF and returned
\* nil, and the consumer received the token and then the closed indication
C18_Witness ==
  /\ Input = <<>>
  /\ State = NIL
  /\ pc = "done"
  /\ sent = <<EndOfInput>>
  /\ received = <<EndOfInput>>
  /\ closedReads >= 1

\* C19: the channel is closed at most once; a second call of Run does not
\* panic and never has two goroutines inside state functions over the same
\* State and cursor; and once the driver has closed the channel neither a
\* call of Shutdown, by the second goroutine or by another, nor an
\* emission panics.
C19_MisuseIsGuarded ==
  /\ [](/\ closeCount <= 1
        /\ ~(pc = "state" /\ pc2 = "state"))
  /\ [][(\/ RunAgain
         \/ (closed /\ pc = "done" /\ (ShutdownCall \/ Shutdown2 \/ EmitStep)))
          => pc' # "panic"]_vars

\* C20: in every cursor state, Next returns EOF exactly when IsEOF called
\* just before it returns true, and then leaves Pos as it was and sets
\* Width to 0; when IsEOF returns false, Next either moves Pos forward or,
\* with Pos below the start of the input, panics.
C20_IsEOFAgreesWithNext ==
  pc = "state" =>
    LET e == IsEOFOp(Input, Cursor)
        n == NextOp(Input, Cursor)
    IN  /\ ~e.fault
        /\ CursorOf(e) = Cursor
        /\ e.ret <=> (~n.fault /\ n.ret = EOF)
        /\ e.ret => (n.Pos = Pos /\ n.Width = 0)
        /\ (~e.ret /\ ~n.fault) => n.Pos > Pos
        /\ n.fault => Pos < 0

\* on an input of e-acute and one more character, Next read the two-byte
\* character and the next Next returned EOF at Pos = 2, where IsEOF is true
C20_Witness ==
  /\ pc = "state"
  /\ Len(Input) = 3
  /\ SubSeq(Input, 1, 2) = EAcute
  /\ Pos = 2
  /\ Width = 0
  /\ IsEOFOp(Input, Cursor).ret

====
